---- MODULE Spec2Model ----
(***************************************************************************)
(* Model of the family-ontology tooling:                                   *)
(*   - scripts/dependency_analyzer.py : OntologyDependencyAnalyzer         *)
(*       extract_dependencies, topological_sort/_visit,                    *)
(*       _calculate_dependency_levels, _get_short_name                     *)
(*   - tests/runners/base_runner.py   : BaseTestRunner.run_tests/run_test   *)
(*   - tests/runners/test_executor.py : TestExecutor.run_level,            *)
(*       apply_materialization, run_all_levels                             *)
(*   - tests/cli.py                   : cmd_run_tests, the run command     *)
(* Strings that the code takes apart (identifiers) are sequences of        *)
(* one-character strings.                                                  *)
(***************************************************************************)
EXTENDS Integers, Sequences, FiniteSets, TLC

VARIABLES
    graph,             \* analyzer.graph: the parsed declaration source
    dependencies,      \* analyzer.dependencies: dependent -> set of dependencies
    reverse_deps,      \* analyzer.reverse_deps: dependency -> set of dependents
    sorted_relations,  \* analyzer.sorted_relations
    visited,           \* analyzer.visited
    temp_marked,       \* analyzer.temp_marked
    ret,               \* outcome of the last analyzer call, as its caller sees it
    config,            \* executor.config: the level configuration
    results,           \* executor.runner.results
    store_log,         \* the scripts applied and the queries run so far, oldest first
    call,              \* the executor call made and its outcome, as its caller sees it
    test_case,         \* a test case of runner.test_suite: its expected rows
    backend_rows       \* the rows the store holds as the answer to the query of test_case

avars == <<graph, dependencies, reverse_deps, sorted_relations, visited, temp_marked, ret>>

evars == <<config, results, store_log, call, test_case, backend_rows>>

vars == <<graph, dependencies, reverse_deps, sorted_relations, visited, temp_marked, ret,
          config, results, store_log, call, test_case, backend_rows>>

(***************************************************************************)
(* Bounds                                                                  *)
(***************************************************************************)
MaxDecls == 2      \* declarations in a declaration source with chain declarations
MaxEdges == 3      \* declarations in a declaration source of annotations only
MaxScripts == 2    \* scripts in one list of materialization scripts
MaxTests == 2      \* test ids in the test list of one level
MaxLogged == 2     \* a runner is called again only while its log is this short
MaxRows == 2       \* rows in the answer to a query and in the expected rows of a test

(***************************************************************************)
(* Generic helpers                                                         *)
(***************************************************************************)
Range(f) == {f[i] : i \in DOMAIN f}

RECURSIVE Perms(_)
\* The sequences that list every member of S once: the orders in which a Python
\* set of strings may be iterated
Perms(S) ==
    IF S = {} THEN {<<>>}
    ELSE UNION {{<<x>> \o p : p \in Perms(S \ {x})} : x \in S}

Max(S) == CHOOSE m \in S : \A x \in S : x <= m

\* Python's str ordering is by code point; the characters used by the model.
\* The words that the model keeps whole stand for their first character.
CodePoint(c) ==
    CASE c = " " -> 32
      [] c = "#" -> 35
      [] c = "'" -> 39
      [] c = "(" -> 40
      [] c = ")" -> 41
      [] c = "," -> 44
      [] c = "/" -> 47
      [] c = "False" -> 70
      [] c = "True" -> 84
      [] c = ":" -> 58
      [] c = "[" -> 91
      [] c = "]" -> 93
      [] c = "a" -> 97
      [] c = "b" -> 98
      [] c = "http://example.org/family" -> 104
      [] c = "result" -> 114
      [] c = "f" -> 102
      [] c = "g" -> 103
      [] c = "x" -> 120
      [] c = "y" -> 121
      [] c = "z" -> 122

RECURSIVE StrLessFrom(_, _, _)
StrLessFrom(a, b, i) ==
    IF i > Len(a) THEN i <= Len(b)
    ELSE IF i > Len(b) THEN FALSE
    ELSE IF a[i] = b[i] THEN StrLessFrom(a, b, i + 1)
    ELSE CodePoint(a[i]) < CodePoint(b[i])

\* a < b for Python strings
StrLess(a, b) == StrLessFrom(a, b, 1)

RECURSIVE SortedSeq(_)
\* sorted(S) for a set of strings
SortedSeq(S) ==
    IF S = {} THEN <<>>
    ELSE LET m == CHOOSE x \in S : \A y \in S \ {x} : StrLess(x, y)
         IN <<m>> \o SortedSeq(S \ {m})

(***************************************************************************)
(* Identifiers and the declaration source                                  *)
(***************************************************************************)
\* The identifiers of the model: f#x and g/x share the short name x.
Ids == { <<"f", "#", "x">>, <<"f", "#", "y">>, <<"f", "#", "z">>, <<"g", "/", "x">> }

\* s.split(sep)[-1]: the part of s after the last occurrence of sep
SplitLast(s, sep) ==
    LET hits == {i \in 1..Len(s) : s[i] = sep}
    IN IF hits = {} THEN s ELSE SubSeq(s, Max(hits) + 1, Len(s))

get_short_name(node_uri) == SplitLast(SplitLast(node_uri, "#"), "/")

\* A term of the source that is an rdflib BNode, not a URIRef
BlankNode == <<"_", ":", "b">>

\* The components of the chains: two identifiers and a blank node
ChainTerms == { <<"f", "#", "y">>, <<"f", "#", "z">>, BlankNode }

\* The properties that have chain declarations
ChainProps == { <<"f", "#", "x">>, <<"g", "/", "x">> }

\* One declaration of the source: a chain declaration (prop, [c1, c2]) or an
\* annotation declaration (prop, dep), the latter with one component. head is
\* the kind of the object of the chain triple: the BNode that heads an RDF list,
\* or a URIRef.
ChainDecls ==
    {[kind |-> "chain", prop |-> p, head |-> h, comps |-> c] :
        p \in ChainProps, h \in {"BNode", "URIRef"}, c \in ChainTerms \X ChainTerms}

AnnotDecls == {[kind |-> "annot", prop |-> p, comps |-> <<d>>] : p \in Ids, d \in Ids}

Decls == ChainDecls \cup AnnotDecls

Sources == {Range(f) : f \in UNION {[1..n -> Decls] : n \in 0..MaxDecls}}

\* The sources that declare every dependency by an annotation
EdgeSources == {Range(f) : f \in UNION {[1..n -> AnnotDecls] : n \in 0..MaxEdges}}


(***************************************************************************)
(* extract_dependencies                                                    *)
(***************************************************************************)
\* The (dependent, dependency) pairs that the two loops of extract_dependencies add
\* with the annotation loop left out
DeclaredEdges_chains_only(g) ==
    UNION {{<<d.prop, d.comps[i]>> : i \in {j \in DOMAIN d.comps : d.comps[j] # BlankNode}}
           : d \in {e \in g : e.kind = "chain" /\ e.head = "BNode"}}

\* A chain whose object is not a BNode is skipped, and so is a component that
\* is a BNode
DeclaredEdges(g) ==
    UNION {{<<d.prop, d.comps[i]>> : i \in {j \in DOMAIN d.comps : d.comps[j] # BlankNode}}
           : d \in {e \in g : e.kind = "annot" \/ e.head = "BNode"}}

\* A defaultdict(set) holding the pairs E, keyed by the first component
ForwardMap(E) == [p \in {e[1] : e \in E} |-> {e[2] : e \in {x \in E : x[1] = p}}]

\* A defaultdict(set) holding the pairs E, keyed by the second component
ReverseMap(E) == [d \in {e[2] : e \in E} |-> {e[1] : e \in {x \in E : x[2] = d}}]

NoReturn == [op |-> "none"]

\* extract_dependencies that adds to the maps it finds
extract_dependencies_no_clear ==
    LET old == UNION {{<<q, d>> : d \in dependencies[q]} : q \in DOMAIN dependencies}
    IN /\ dependencies' = ForwardMap(DeclaredEdges(graph) \cup old)
       /\ reverse_deps' = ReverseMap(DeclaredEdges(graph) \cup old)
       /\ ret' = [op |-> "extract_dependencies", kind |-> "return"]
       /\ UNCHANGED <<graph, sorted_relations, visited, temp_marked>>
       /\ UNCHANGED evars

extract_dependencies ==
    /\ dependencies' = ForwardMap(DeclaredEdges(graph))
    /\ reverse_deps' = ReverseMap(DeclaredEdges(graph))
    /\ ret' = [op |-> "extract_dependencies", kind |-> "return"]
    /\ UNCHANGED <<graph, sorted_relations, visited, temp_marked>>
    /\ UNCHANGED evars

\* The holder of the analyzer removes a declaration from analyzer.graph, the
\* rdflib graph that __init__ parsed
remove_declaration ==
    /\ \E d \in graph : graph' = graph \ {d}
    /\ ret' = [op |-> "graph.remove", kind |-> "return"]
    /\ UNCHANGED <<dependencies, reverse_deps, sorted_relations, visited, temp_marked>>
    /\ UNCHANGED evars

(***************************************************************************)
(* topological_sort                                                        *)
(***************************************************************************)
\* all_nodes: the keys of the map and the members of its values
AllNodes(deps) == DOMAIN deps \cup UNION {deps[p] : p \in DOMAIN deps}

\* self.dependencies.get(node, set())
DepsOf(deps, node) == IF node \in DOMAIN deps THEN deps[node] ELSE {}

RECURSIVE visit(_, _, _), VisitEach(_, _, _, _)

\* _visit with the append moved before the loop over the dependencies
visit_append_first(deps, node, st) ==
    IF st.raised THEN st
    ELSE IF node \in st.temp_marked THEN [st EXCEPT !.raised = TRUE]
    ELSE IF node \in st.visited THEN st
    ELSE LET marked == [st EXCEPT !.temp_marked = @ \cup {node},
                                  !.sorted_relations = Append(@, node)]
             after == VisitEach(deps, SortedSeq(DepsOf(deps, node)), 1, marked)
         IN IF after.raised THEN after
            ELSE [after EXCEPT !.visited = @ \cup {node}, !.temp_marked = @ \ {node}]

\* _visit that returns on a temporarily marked node instead of raising
visit_no_raise(deps, node, st) ==
    IF st.raised THEN st
    ELSE IF node \in st.temp_marked \/ node \in st.visited THEN st
    ELSE LET marked == [st EXCEPT !.temp_marked = @ \cup {node}]
             after == VisitEach(deps, SortedSeq(DepsOf(deps, node)), 1, marked)
         IN [after EXCEPT !.visited = @ \cup {node},
                          !.temp_marked = @ \ {node},
                          !.sorted_relations = Append(@, node)]

\* _visit(node) on the traversal fields st; st.raised is set when the ValueError
\* is raised, and the fields then stay as they were at the raise.
visit(deps, node, st) ==
    IF st.raised THEN st
    ELSE IF node \in st.temp_marked THEN [st EXCEPT !.raised = TRUE]
    ELSE IF node \in st.visited THEN st
    ELSE LET marked == [st EXCEPT !.temp_marked = @ \cup {node}]
             after == VisitEach(deps, SortedSeq(DepsOf(deps, node)), 1, marked)
         IN IF after.raised THEN after
            ELSE [after EXCEPT !.visited = @ \cup {node},
                               !.temp_marked = @ \ {node},
                               !.sorted_relations = Append(@, node)]

\* for dep in nodes[i..]: self._visit(dep)
VisitEach(deps, nodes, i, st) ==
    IF i > Len(nodes) \/ st.raised THEN st
    ELSE VisitEach(deps, nodes, i + 1, visit(deps, nodes[i], st))

RECURSIVE VisitRoots(_, _, _, _)
\* for node in all_nodes: if node not in self.visited: self._visit(node)
VisitRoots(deps, order, i, st) ==
    IF i > Len(order) \/ st.raised THEN st
    ELSE VisitRoots(deps, order, i + 1,
                    IF order[i] \notin st.visited THEN visit(deps, order[i], st) ELSE st)

\* The traversal of topological_sort when the set all_nodes is iterated in `order`
SortRun(deps, marks, order) ==
    VisitRoots(deps, order, 1,
               [visited |-> {}, temp_marked |-> marks, sorted_relations |-> <<>>,
                raised |-> FALSE])

topological_sort ==
    \E order \in Perms(AllNodes(dependencies)) :
        LET st == SortRun(dependencies, temp_marked, order)
        IN /\ visited' = st.visited
           /\ temp_marked' = st.temp_marked
           /\ sorted_relations' = st.sorted_relations
           /\ ret' = IF st.raised
                     THEN [op |-> "topological_sort", kind |-> "raise",
                           error |-> "ValueError"]
                     ELSE [op |-> "topological_sort", kind |-> "return",
                           value |-> st.sorted_relations]
           /\ UNCHANGED <<graph, dependencies, reverse_deps>>
           /\ UNCHANGED evars

(***************************************************************************)
(* _calculate_dependency_levels                                            *)
(***************************************************************************)
\* First pass: the short names of all dependents and dependencies
ShortNodes(deps) == {get_short_name(n) : n \in AllNodes(deps)}

\* relationships, as a set: (dep, prop) means prop depends on dep
Relationships(deps) ==
    UNION {{<<get_short_name(d), get_short_name(p)>> : d \in deps[p]} : p \in DOMAIN deps}

\* rev_graph[node]: the sources of the relationships whose target is node
RevGraph(deps, node) == {r[1] : r \in {x \in Relationships(deps) : x[2] = node}}

\* levels after the loop "for node in nodes: if not rev_graph[node]: levels[node] = 0"
InitialLevels(deps) ==
    [n \in {m \in ShortNodes(deps) : RevGraph(deps, m) = {}} |-> 0]

RECURSIVE LevelPass_any_dependency(_, _, _, _)
\* LevelPass that levels a node as soon as one of its dependencies has a level
LevelPass_any_dependency(deps, order, i, acc) ==
    IF i > Len(order) THEN acc
    ELSE LET node == order[i]
             rdeps == RevGraph(deps, node)
         IN IF node \in DOMAIN acc.levels THEN LevelPass_any_dependency(deps, order, i + 1, acc)
            ELSE IF rdeps = {}
                 THEN LevelPass_any_dependency(deps, order, i + 1,
                                [levels |-> (node :> 0) @@ acc.levels, changed |-> TRUE])
            ELSE IF rdeps \cap DOMAIN acc.levels # {}
                 THEN LevelPass_any_dependency(deps, order, i + 1,
                                [levels |-> (node :> (Max({acc.levels[d] : d \in rdeps \cap DOMAIN acc.levels}) + 1))
                                               @@ acc.levels,
                                 changed |-> TRUE])
            ELSE LevelPass_any_dependency(deps, order, i + 1, acc)

RECURSIVE LevelPass_skips_a_level(_, _, _, _)
\* LevelPass that puts a node two levels above its highest dependency
LevelPass_skips_a_level(deps, order, i, acc) ==
    IF i > Len(order) THEN acc
    ELSE LET node == order[i]
             rdeps == RevGraph(deps, node)
         IN IF node \in DOMAIN acc.levels THEN LevelPass_skips_a_level(deps, order, i + 1, acc)
            ELSE IF rdeps = {}
                 THEN LevelPass_skips_a_level(deps, order, i + 1,
                                [levels |-> (node :> 0) @@ acc.levels, changed |-> TRUE])
            ELSE IF rdeps \subseteq DOMAIN acc.levels
                 THEN LevelPass_skips_a_level(deps, order, i + 1,
                                [levels |-> (node :> (Max({acc.levels[d] : d \in rdeps}) + 2))
                                               @@ acc.levels,
                                 changed |-> TRUE])
            ELSE LevelPass_skips_a_level(deps, order, i + 1, acc)

RECURSIVE LevelPass(_, _, _, _)
\* One execution of the for loop inside "while changed", from position i of the
\* iteration order, on the levels assigned so far
LevelPass(deps, order, i, acc) ==
    IF i > Len(order) THEN acc
    ELSE LET node == order[i]
             rdeps == RevGraph(deps, node)
         IN IF node \in DOMAIN acc.levels THEN LevelPass(deps, order, i + 1, acc)
            ELSE IF rdeps = {}
                 THEN LevelPass(deps, order, i + 1,
                                [levels |-> (node :> 0) @@ acc.levels, changed |-> TRUE])
            ELSE IF rdeps \subseteq DOMAIN acc.levels
                 THEN LevelPass(deps, order, i + 1,
                                [levels |-> (node :> (Max({acc.levels[d] : d \in rdeps}) + 1))
                                               @@ acc.levels,
                                 changed |-> TRUE])
            ELSE LevelPass(deps, order, i + 1, acc)

RECURSIVE LevelLoop_idle_pass(_, _, _, _)
\* LevelLoop that runs one more pass after a pass that changed nothing
LevelLoop_idle_pass(deps, order, lv, passes) ==
    LET r == LevelPass(deps, order, 1, [levels |-> lv, changed |-> FALSE])
        gained == Cardinality(DOMAIN r.levels) - Cardinality(DOMAIN lv)
    IN IF r.changed
       THEN LET rest == LevelLoop_idle_pass(deps, order, r.levels, passes + 1)
            IN [rest EXCEPT !.assigned = <<gained>> \o @]
       ELSE [levels |-> r.levels, passes |-> passes + 2, assigned |-> <<gained, 0>>]

RECURSIVE LevelLoop(_, _, _, _)
\* while changed: ...; passes counts the executions of the loop body and
\* assigned[k] is the number of nodes that execution k gave a level
LevelLoop(deps, order, lv, passes) ==
    LET r == LevelPass(deps, order, 1, [levels |-> lv, changed |-> FALSE])
        gained == Cardinality(DOMAIN r.levels) - Cardinality(DOMAIN lv)
    IN IF r.changed
       THEN LET rest == LevelLoop(deps, order, r.levels, passes + 1)
            IN [rest EXCEPT !.assigned = <<gained>> \o @]
       ELSE [levels |-> r.levels, passes |-> passes + 1, assigned |-> <<gained>>]

\* "for node in nodes: if node not in levels: levels[node] = 0"
DefaultLevels(nodes, lv) == [n \in nodes |-> IF n \in DOMAIN lv THEN lv[n] ELSE 0]

\* The value _calculate_dependency_levels returns when nodes is iterated in `order`
LevelsRun(deps, order) ==
    LET loop == LevelLoop(deps, order, InitialLevels(deps), 0)
        lv == DefaultLevels(ShortNodes(deps), loop.levels)
    IN [op |-> "_calculate_dependency_levels", kind |-> "return",
        nodes |-> ShortNodes(deps),
        relationships |-> Relationships(deps),
        levels |-> lv,
        max_level |-> IF ShortNodes(deps) = {} THEN 0 ELSE Max(Range(lv)),
        passes |-> loop.passes,
        assigned |-> loop.assigned]

calculate_dependency_levels ==
    \E order \in Perms(ShortNodes(dependencies)) :
        /\ ret' = LevelsRun(dependencies, order)
        /\ UNCHANGED <<graph, dependencies, reverse_deps, sorted_relations, visited,
                       temp_marked>>
        /\ UNCHANGED evars


(***************************************************************************)
(* Test suite, scripts and level configuration                             *)
(***************************************************************************)
\* The test ids of the suite ("0.2", "0.10") and an id that is in no suite ("9.9")
T02 == <<"0", ".", "2">>
T010 == <<"0", ".", "1", "0">>
BadId == <<"9", ".", "9">>

Suite == {T02, T010}

\* Script paths: one relative to the project root, one absolute
Scripts == { <<"a.rq">>, <<"/", "b.rq">> }

ScriptLists == UNION {[1..n -> Scripts] : n \in 0..MaxScripts}

TestLists == UNION {[1..n -> Suite \cup {BadId}] : n \in 0..MaxTests}

\* str(level) for the levels 0..9
str(level) == <<"0", "1", "2", "3", "4", "5", "6", "7", "8", "9">>[level + 1]

\* d.get(key, default)
Get(d, key, default) == IF key \in DOMAIN d THEN d[key] ELSE default

\* _resolve_script_path: an absolute path as it is, a relative one under the root
resolve_script_path(script_path) ==
    IF script_path[1] = "/" THEN script_path ELSE <<"/", "root">> \o script_path

\* The materialize argument: None, or a list of script paths
None == [none |-> TRUE]
Some(list) == [none |-> FALSE, list |-> list]

(***************************************************************************)
(* BaseTestRunner.run_tests / run_test                                     *)
(***************************************************************************)
DigitValue(c) ==
    CASE c = "0" -> 0 [] c = "1" -> 1 [] c = "2" -> 2 [] c = "3" -> 3 [] c = "4" -> 4
      [] c = "5" -> 5 [] c = "6" -> 6 [] c = "7" -> 7 [] c = "8" -> 8 [] c = "9" -> 9

RECURSIVE IntOf(_)
\* int(s) for a string of decimal digits
IntOf(s) == IF s = <<>> THEN 0 ELSE 10 * IntOf(SubSeq(s, 1, Len(s) - 1)) + DigitValue(s[Len(s)])

RECURSIVE SplitDots(_)
\* s.split('.')
SplitDots(s) ==
    LET hits == {i \in 1..Len(s) : s[i] = "."}
    IN IF hits = {} THEN <<s>>
       ELSE LET k == CHOOSE i \in hits : \A j \in hits : i <= j
            IN <<SubSeq(s, 1, k - 1)>> \o SplitDots(SubSeq(s, k + 1, Len(s)))

\* tuple(map(int, test_id.split('.')))
IdKey(test_id) == [i \in DOMAIN SplitDots(test_id) |-> IntOf(SplitDots(test_id)[i])]

RECURSIVE TupleLessFrom(_, _, _)
TupleLessFrom(a, b, i) ==
    IF i > Len(a) THEN i <= Len(b)
    ELSE IF i > Len(b) THEN FALSE
    ELSE IF a[i] = b[i] THEN TupleLessFrom(a, b, i + 1)
    ELSE a[i] < b[i]

RECURSIVE SortedIds(_)

\* sorted(ids), the ids compared as strings
SortedIds_as_strings(ids) ==
    IF ids = {} THEN <<>>
    ELSE LET code(s) == [i \in DOMAIN s |-> IF s[i] = "." THEN 46 ELSE 48 + DigitValue(s[i])]
             m == CHOOSE x \in ids :
                     \A y \in ids \ {x} : TupleLessFrom(code(x), code(y), 1)
         IN <<m>> \o SortedIds(ids \ {m})

\* sorted(ids, key=lambda x: tuple(map(int, x.split('.'))))
SortedIds(ids) ==
    IF ids = {} THEN <<>>
    ELSE LET m == CHOOSE x \in ids : \A y \in ids \ {x} : TupleLessFrom(IdKey(x), IdKey(y), 1)
         IN <<m>> \o SortedIds(ids \ {m})

\* The verdicts of run_test: the rows match, the rows differ, the query raised
Verdicts == {"PASS", "FAIL", "ERROR"}

\* Entries of the log. A query entry is a call of backend.execute_query made by
\* run_test, with the verdict of the test; an apply entry is a call of
\* apply_materialization with what it met. level is the level on whose behalf
\* the call was made.
QueryEvent(test_id, level, verdict) ==
    [op |-> "query", arg |-> test_id, level |-> level, outcome |-> verdict]

ApplyEvent(script_path, level, outcome) ==
    [op |-> "apply", arg |-> script_path, level |-> level, outcome |-> outcome]

\* run_test(test_id, ...) on self.results, when the comparison ends in `verdict`
run_test(test_id, verdict, res) ==
    IF verdict = "PASS"
    THEN [res EXCEPT !.passed = @ + 1, !.details = (test_id :> "PASS") @@ @]
    ELSE [res EXCEPT !.failed = @ + 1, !.details = (test_id :> verdict) @@ @]

(***************************************************************************)
(* run_test: normalization and comparison of the rows                      *)
(***************************************************************************)
\* The base URI of the ontology, kept as one word of a value
Base == "http://example.org/family"

\* The values of a row: a full URI, the same in prefixed form, another prefixed
RowValues == { <<Base, "#", "a">>, <<":", "a">>, <<":", "b">> }

\* A row binds one variable, x, or is the row of an ASK answer, keyed result
Rows == UNION {[{k} -> RowValues] : k \in {"x", "result"}}

RowLists == UNION {[1..n -> Rows] : n \in 0..MaxRows}

\* The Python booleans, the values of the row of an ASK answer
PyTrue == <<"bool", "True">>
PyFalse == <<"bool", "False">>

IsBool(value) == value[1] = "bool"

\* str(value): the text of a URIRef or of a string is the value itself, the
\* text of a boolean is the word True or False
str_of(value) == IF IsBool(value) THEN <<value[2]>> ELSE value

\* repr(value), as str() of a list of items shows a value: a string in quotes
value_repr(value) == IF IsBool(value) THEN <<value[2]>> ELSE <<"'">> \o value \o <<"'">>

\* The values of the rows under normalization: those of RowValues, a plain
\* word, and the booleans
AnswerValues == RowValues \cup {<<"a">>, PyTrue, PyFalse}

AnswerRows == UNION {[{k} -> AnswerValues] : k \in {"x", "result"}}

AnswerLists == UNION {[1..n -> AnswerRows] : n \in 0..MaxRows}

\* The expected rows of the test cases run on them
ExpectedAnswers ==
    {<<[result |-> PyTrue]>>, <<[result |-> PyFalse]>>, <<[result |-> <<":", "a">>]>>,
     <<[x |-> <<":", "a">>]>>}

\* 'http://example.org/family#' in value_str
HasBase(value_str) ==
    \E i \in 1..(Len(value_str) - 1) : value_str[i] = Base /\ value_str[i + 1] = "#"

\* The expected rows of a test case are written in the prefixed form
ExpectedRows == {r \in Rows : \A k \in DOMAIN r : ~HasBase(r[k])}

ExpectedLists == UNION {[1..n -> ExpectedRows] : n \in 0..MaxRows}

\* normalize_results
normalize_results(rows) ==
    IF rows = <<>> THEN <<>>
    ELSE IF Len(rows) = 1 /\ "result" \in DOMAIN rows[1] THEN rows
    ELSE [i \in DOMAIN rows |->
            [k \in DOMAIN rows[i] |->
                IF HasBase(str_of(rows[i][k]))
                THEN <<":">> \o SplitLast(str_of(rows[i][k]), "#")
                ELSE str_of(rows[i][k])]]

RECURSIVE ItemsStr(_, _, _)
\* The text of the items of row x for the keys ks[i..]: ('k', 'v'), ('k', 'v')
ItemsStr(x, ks, i) ==
    IF i > Len(ks) THEN <<>>
    ELSE <<"(", "'">> \o ks[i] \o <<"'", ",", " ">> \o value_repr(x[ks[i][1]]) \o <<")">>
         \o (IF i < Len(ks) THEN <<",", " ">> ELSE <<>>)
         \o ItemsStr(x, ks, i + 1)

\* The sort key of a row: str(sorted(x.items()))
RowKey(x) == <<"[">> \o ItemsStr(x, SortedSeq({<<k>> : k \in DOMAIN x}), 1) \o <<"]">>

\* The rows left as they come
sorted_rows_as_given(rows) == rows

RECURSIVE sorted_rows(_)
\* sorted(rows, key=lambda x: str(sorted(x.items()))): a stable sort, each row
\* going after the rows before it whose key is not greater
sorted_rows(rows) ==
    IF rows = <<>> THEN <<>>
    ELSE LET front == sorted_rows(SubSeq(rows, 1, Len(rows) - 1))
             last == rows[Len(rows)]
             n == Cardinality({i \in DOMAIN front : ~StrLess(RowKey(last), RowKey(front[i]))})
         IN SubSeq(front, 1, n) \o <<last>> \o SubSeq(front, n + 1, Len(front))

\* The rows compared as sets, a repeated row counting once
Compare_as_sets(rows, expected) ==
    IF Range(normalize_results(rows)) = Range(expected) THEN "PASS" ELSE "FAIL"

\* _analyze_failure: the class of the mismatch that is printed
analyze_failure(expected, actual) ==
    CASE Len(actual) = 0 /\ Len(expected) > 0 -> "no results"
      [] Len(actual) # 0 /\ Len(actual) < Len(expected) -> "partial results"
      [] Len(actual) > Len(expected) -> "too many results"
      [] OTHER -> "differ in content"

\* The verdict of run_test when the query returned `rows`
Compare(rows, expected) ==
    IF sorted_rows(normalize_results(rows)) = sorted_rows(expected) THEN "PASS" ELSE "FAIL"

\* The orders in which the store may return the rows
Orderings(rows) == {[i \in DOMAIN rows |-> rows[p[i]]] : p \in Perms(DOMAIN rows)}

RECURSIVE RunEach(_, _, _, _)

\* The loop of run_tests leaving at the first test whose query raised
RunEach_stop_on_error(tests_to_run, i, level, st) ==
    IF i > Len(tests_to_run) THEN {st}
    ELSE UNION {LET after == [results |-> run_test(tests_to_run[i], v, st.results),
                              log |-> Append(st.log, QueryEvent(tests_to_run[i], level, v))]
                IN IF v = "ERROR" THEN {after}
                   ELSE RunEach(tests_to_run, i + 1, level, after)
                : v \in Verdicts}

\* "for test_id, test_case in tests_to_run: self.run_test(...)" from position i:
\* the states st = [results, log] it can end in
RunEach(tests_to_run, i, level, st) ==
    IF i > Len(tests_to_run) THEN {st}
    ELSE UNION {RunEach(tests_to_run, i + 1, level,
                        [results |-> run_test(tests_to_run[i], v, st.results),
                         log |-> Append(st.log, QueryEvent(tests_to_run[i], level, v))])
                : v \in Verdicts}

\* tests_to_run of run_tests(test_ids), when every id is valid
TestsToRun(test_ids) == IF test_ids # <<>> THEN test_ids ELSE SortedIds(Suite)

\* run_tests(test_ids): the outcomes [raised, results, log] it can end in
run_tests(test_ids, level, st) ==
    IF test_ids # <<>> /\ \E i \in DOMAIN test_ids : test_ids[i] \notin Suite
    THEN {[raised |-> TRUE, results |-> st.results, log |-> st.log]}
    ELSE {[raised |-> FALSE, results |-> o.results, log |-> o.log] :
            o \in RunEach(TestsToRun(test_ids), 1, level,
                          [results |-> [st.results EXCEPT !.total = Len(TestsToRun(test_ids))],
                           log |-> st.log])}

NoCall == [op |-> "none"]

NoTest == [expected |-> <<>>]

\* The value run_tests returns: the runner's results dict itself, not a copy
RunnerResults == [ref |-> "runner.results"]

\* A call of runner.run_tests(test_ids) by a caller that holds the runner, with
\* test_ids None or a list. The call record keeps, next to what the caller
\* sees, the length of the log and the failed count at the time of the call.
runner_run_tests ==
    /\ Len(store_log) <= MaxLogged
    /\ \E test_ids \in {None} \cup {Some(l) : l \in TestLists} :
         \E o \in run_tests(IF test_ids.none THEN <<>> ELSE test_ids.list, -1,
                            [results |-> results, log |-> store_log]) :
            /\ results' = o.results
            /\ store_log' = o.log
            /\ call' = [op |-> "run_tests", test_ids |-> test_ids,
                        kind |-> IF o.raised THEN "raise" ELSE "return",
                        value |-> IF o.raised THEN [ref |-> "ValueError"] ELSE RunnerResults,
                        logged |-> Len(store_log), failed_before |-> results.failed]
    /\ UNCHANGED <<config, test_case, backend_rows>>
    /\ UNCHANGED avars

\* A call of runner.run_test for test_case, the store returning its rows in one
\* of the orders it may
runner_run_test ==
    /\ call = NoCall
    /\ \E rows \in Orderings(backend_rows) :
         LET verdict == Compare(rows, test_case.expected)
         IN /\ results' = run_test(T02, verdict, results)
            /\ store_log' = Append(store_log, QueryEvent(T02, -1, verdict))
            /\ call' = [op |-> "run_test", rows |-> rows, kind |-> "return",
                        actual |-> normalize_results(rows),
                        analysis |-> IF verdict = "FAIL"
                                     THEN analyze_failure(test_case.expected,
                                                          normalize_results(rows))
                                     ELSE "none",
                        value |-> (verdict = "PASS")]
    /\ UNCHANGED <<config, test_case, backend_rows>>
    /\ UNCHANGED avars

(***************************************************************************)
(* TestExecutor.apply_materialization / run_level / run_all_levels         *)
(***************************************************************************)
\* What apply_materialization(script_path) can meet: no such file, the store
\* raising, the store reporting 0 triples added, or more
ApplyOutcomes == {"missing", "raise", "zero", "added"}

\* apply_materialization that raises when the store reports 0 triples added
apply_materialization_zero_raises(script_path, level, outcome, log) ==
    [log |-> Append(log, ApplyEvent(script_path, level, outcome)),
     error |-> CASE outcome = "missing" -> "FileNotFoundError"
                 [] outcome \in {"raise", "zero"} -> "Exception"
                 [] OTHER -> "none"]

\* apply_materialization(script_path): the log after it and the exception it
\* raised, if any. A missing file raises before backend.execute_update is called.
apply_materialization(script_path, level, outcome, log) ==
    [log |-> Append(log, ApplyEvent(script_path, level, outcome)),
     error |-> CASE outcome = "missing" -> "FileNotFoundError"
                 [] outcome = "raise" -> "Exception"
                 [] OTHER -> "none"]

RECURSIVE ApplyEach(_, _, _, _)
\* "for script_path in materialize: try: self.apply_materialization(...)" from
\* position i: the [log, error] it can end in, error being that of the first
\* script that failed
ApplyEach(materialize, i, level, log) ==
    IF i > Len(materialize) THEN {[log |-> log, error |-> "none"]}
    ELSE UNION {LET r == apply_materialization(materialize[i], level, o, log)
                IN IF r.error # "none" THEN {r}
                   ELSE ApplyEach(materialize, i + 1, level, r.log)
                : o \in ApplyOutcomes}

\* The scripts run_level applies: the argument, or the configured list resolved
MaterializeList(cfg, level, materialize) ==
    IF materialize.none
    THEN LET raw == Get(cfg.materialization_requirements, str(level), <<>>)
         IN [i \in DOMAIN raw |-> resolve_script_path(raw[i])]
    ELSE materialize.list

\* The dict run_level returns when a script failed
MaterializationError(error) ==
    [ref |-> "new", total |-> 0, passed |-> 0, failed |-> 0, details |-> <<>>,
     materialization_error |-> error]

\* run_level that runs the tests of the level before it applies the scripts
run_level_tests_first(cfg, level, materialize, st) ==
    IF str(level) \notin DOMAIN cfg.test_levels
    THEN {[kind |-> "raise", value |-> "ValueError", results |-> st.results, log |-> st.log]}
    ELSE UNION {
           IF t.raised
           THEN {[kind |-> "raise", value |-> "ValueError", results |-> t.results, log |-> t.log]}
           ELSE {IF a.error # "none"
                 THEN [kind |-> "return", value |-> MaterializationError(a.error),
                       results |-> t.results, log |-> a.log]
                 ELSE [kind |-> "return", value |-> RunnerResults,
                       results |-> t.results, log |-> a.log]
                 : a \in ApplyEach(MaterializeList(cfg, level, materialize), 1, level, t.log)}
           : t \in run_tests(cfg.test_levels[str(level)].tests, level, st)}

\* run_level that reports a failed script and goes on to the tests
run_level_tests_anyway(cfg, level, materialize, st) ==
    IF str(level) \notin DOMAIN cfg.test_levels
    THEN {[kind |-> "raise", value |-> "ValueError", results |-> st.results, log |-> st.log]}
    ELSE UNION {
           {IF t.raised
            THEN [kind |-> "raise", value |-> "ValueError", results |-> t.results, log |-> t.log]
            ELSE [kind |-> "return",
                  value |-> IF a.error # "none" THEN MaterializationError(a.error)
                            ELSE RunnerResults,
                  results |-> t.results, log |-> t.log]
            : t \in run_tests(cfg.test_levels[str(level)].tests, level,
                              [results |-> st.results, log |-> a.log])}
           : a \in ApplyEach(MaterializeList(cfg, level, materialize), 1, level, st.log)}

\* run_level(level, materialize): the outcomes [kind, value, results, log] it
\* can end in, from st = [results, log]
run_level_outcomes(cfg, level, materialize, st) ==
    IF str(level) \notin DOMAIN cfg.test_levels
    THEN {[kind |-> "raise", value |-> "ValueError", results |-> st.results, log |-> st.log]}
    ELSE UNION {
           IF a.error # "none"
           THEN {[kind |-> "return", value |-> MaterializationError(a.error),
                  results |-> st.results, log |-> a.log]}
           ELSE {IF t.raised
                 THEN [kind |-> "raise", value |-> "ValueError",
                       results |-> t.results, log |-> t.log]
                 ELSE [kind |-> "return", value |-> RunnerResults,
                       results |-> t.results, log |-> t.log]
                 : t \in run_tests(cfg.test_levels[str(level)].tests, level,
                                   [results |-> st.results, log |-> a.log])}
           : a \in ApplyEach(MaterializeList(cfg, level, materialize), 1, level, st.log)}

\* results['failed'] read from a per-level copy that run_tests never updates
FailedOf_stale(value, res) == IF value.ref = "new" THEN value.failed ELSE 0

\* results['failed'] of a value returned by run_level
FailedOf(value, res) == IF value.ref = "new" THEN value.failed ELSE res.failed

\* range(start_level, 4)
LevelStop == 4

RECURSIVE run_all_levels_outcomes(_, _, _, _, _)
\* The loop of run_all_levels from `level` on: the outcomes [kind, value,
\* results, log, attempted] it can end in; all_results maps each level to the
\* value run_level returned for it, and attempted lists the levels run_level
\* was called for, in the order of the calls
run_all_levels_outcomes(cfg, level, materialize_per_level, all_results, st) ==
    IF level >= LevelStop
    THEN {[kind |-> "return", value |-> all_results, results |-> st.results, log |-> st.log,
           attempted |-> <<>>]}
    ELSE UNION {
           IF o.kind = "raise"
           THEN {[kind |-> "raise", value |-> o.value, results |-> o.results, log |-> o.log,
                  attempted |-> <<level>>]}
           ELSE IF FailedOf(o.value, o.results) > 0
           THEN {[kind |-> "return", value |-> (level :> o.value) @@ all_results,
                  results |-> o.results, log |-> o.log, attempted |-> <<level>>]}
           ELSE {[r EXCEPT !.attempted = <<level>> \o @] :
                   r \in run_all_levels_outcomes(cfg, level + 1, materialize_per_level,
                                                 (level :> o.value) @@ all_results,
                                                 [results |-> o.results, log |-> o.log])}
           : o \in run_level_outcomes(cfg, level,
                                      Some(Get(materialize_per_level, level, <<>>)), st)}

\* The levels a caller asks run_level for
LevelArgs == 0..LevelStop

run_level ==
    /\ call = NoCall
    /\ \E level \in LevelArgs, materialize \in {None} \cup {Some(l) : l \in ScriptLists} :
         \E o \in run_level_outcomes(config, level, materialize,
                                     [results |-> results, log |-> store_log]) :
            /\ results' = o.results
            /\ store_log' = o.log
            /\ call' = [op |-> "run_level", level |-> level, materialize |-> materialize,
                        kind |-> o.kind, value |-> o.value]
    /\ UNCHANGED <<config, test_case, backend_rows>>
    /\ UNCHANGED avars

\* The per-level overrides a caller passes to run_all_levels: none, or a list
\* for one level
OverrideArgs == {<<>>} \cup {(l :> list) : l \in 0..(LevelStop - 1), list \in ScriptLists}

run_all_levels ==
    /\ call = NoCall
    /\ \E start_level \in 0..(LevelStop - 1), materialize_per_level \in OverrideArgs :
         \E o \in run_all_levels_outcomes(config, start_level, materialize_per_level, <<>>,
                                          [results |-> results, log |-> store_log]) :
            /\ results' = o.results
            /\ store_log' = o.log
            /\ call' = [op |-> "run_all_levels", start_level |-> start_level,
                        materialize_per_level |-> materialize_per_level,
                        kind |-> o.kind, value |-> o.value, attempted |-> o.attempted]
    /\ UNCHANGED <<config, test_case, backend_rows>>
    /\ UNCHANGED avars

(***************************************************************************)
(* cli.py: cmd_run_tests, the run command                                  *)
(***************************************************************************)
\* range(10): the levels the run command scans
LevelCount == 10

\* The value of --level: absent, all, a configured level, a level that is not
\* configured, a number above 9, a word that is no number
LevelOptions ==
    {None, Some(<<"all">>), Some(<<"0">>), Some(<<"3">>), Some(<<"1", "0">>), Some(<<"x">>)}

\* The command line of the run command. --materialize takes one path or more.
RunArgs ==
    [level : LevelOptions,
     materialize : {None} \cup {Some(l) : l \in {m \in ScriptLists : Len(m) = 1}},
     test : {None, Some(T02), Some(BadId)},
     data : {None, Some(<<"data.ttl">>)}]

\* int(s) raises ValueError unless s is a decimal number
IsNumber(s) ==
    s # <<>> /\ \A i \in DOMAIN s : s[i] \in {"0", "1", "2", "3", "4", "5", "6", "7", "8", "9"}

RECURSIVE CollectFiles(_, _)
\* The data files of the levels from `level` on, one after the other
CollectFiles(test_levels, level) ==
    IF level >= LevelCount THEN <<>>
    ELSE Get(Get(test_levels, str(level), <<>>), "data_files", <<>>)
         \o CollectFiles(test_levels, level + 1)

\* data_files as the command determines them; an empty list stands for None too
DataFiles(cfg, args) ==
    IF ~args.data.none THEN args.data.list
    ELSE IF args.level.none THEN <<>>
    ELSE IF args.level.list = <<"all">> THEN CollectFiles(cfg.test_levels, 0)
    ELSE IF IsNumber(args.level.list) /\ IntOf(args.level.list) < LevelCount
         THEN Get(Get(cfg.test_levels, str(IntOf(args.level.list)), <<>>), "data_files", <<>>)
    ELSE <<>>

RECURSIVE CollectScripts(_, _)
\* mat_config.get(str(level), []) of the levels from `level` on, one after the other
CollectScripts(mat_config, level) ==
    IF level >= LevelCount THEN <<>>
    ELSE Get(mat_config, str(level), <<>>) \o CollectScripts(mat_config, level + 1)

RECURSIVE Deduplicated(_)

\* The list as it is, repetitions kept
Deduplicated_keeps_all(list) == list

\* The first occurrences of the members of a list, in their order
Deduplicated(list) ==
    IF list = <<>> THEN <<>>
    ELSE LET front == Deduplicated(SubSeq(list, 1, Len(list) - 1))
             last == list[Len(list)]
         IN IF last \in Range(front) THEN front ELSE Append(front, last)

\* all_materialize: the list configured under "all", or what the levels list
AllMaterialize(cfg) ==
    IF "all" \in DOMAIN cfg.materialization_requirements
    THEN cfg.materialization_requirements["all"]
    ELSE Deduplicated(CollectScripts(cfg.materialization_requirements, 0))

RECURSIVE AllTestIds(_, _)
\* all_test_ids: the test lists of the levels from `level` on, one after the other
AllTestIds(test_levels, level) ==
    IF level >= LevelCount THEN <<>>
    ELSE Get(Get(test_levels, str(level), <<>>), "tests", <<>>)
         \o AllTestIds(test_levels, level + 1)

\* How the process of the run command ends: its exit status and what ended it
\* (sys.exit at the end, the ValueError handlers, the check of the data files,
\* or an exception that nothing catches, on which Python exits with status 1)
Exit(status, cause, results_, log) ==
    [exit |-> status, cause |-> cause, results |-> results_, log |-> log]

\* sys.exit(0 if results['failed'] == 0 else 1)
ExitOnFailed(failed, results_, log) == Exit(IF failed = 0 THEN 0 ELSE 1, "end", results_, log)

\* The tests of the run command from the outcome a of the scripts applied
\* outside run_level, where no handler catches what apply_materialization raises
TestsAfterScripts(a, test_ids, st) ==
    IF a.error # "none" THEN {Exit(1, "uncaught", st.results, a.log)}
    ELSE {IF t.raised THEN Exit(1, "ValueError", t.results, t.log)
          ELSE ExitOnFailed(t.results.failed, t.results, t.log)
          : t \in run_tests(test_ids, -1, [results |-> st.results, log |-> a.log])}

\* cmd_run_tests(args) on a new executor st = [results, log]: the ways it can end
cmd_run_tests_outcomes(cfg, args, st) ==
    IF DataFiles(cfg, args) = <<>>
    THEN {Exit(1, "no data files", st.results, st.log)}
    ELSE IF ~args.level.none /\ args.level.list = <<"all">>
    THEN LET scripts == AllMaterialize(cfg)
             resolved == [i \in DOMAIN scripts |-> resolve_script_path(scripts[i])]
         IN UNION {TestsAfterScripts(a, AllTestIds(cfg.test_levels, 0), st)
                   : a \in ApplyEach(resolved, 1, -1, st.log)}
    ELSE IF ~args.level.none
    THEN IF ~IsNumber(args.level.list) \/ IntOf(args.level.list) >= LevelCount
         THEN {Exit(1, "ValueError", st.results, st.log)}
         ELSE {IF o.kind = "raise" THEN Exit(1, "ValueError", o.results, o.log)
               ELSE ExitOnFailed(FailedOf(o.value, o.results), o.results, o.log)
               : o \in run_level_outcomes(cfg, IntOf(args.level.list), args.materialize, st)}
    ELSE UNION {TestsAfterScripts(a,
                                  IF args.test.none THEN <<>> ELSE <<args.test.list>>, st)
                : a \in ApplyEach(IF args.materialize.none THEN <<>>
                                   ELSE args.materialize.list, 1, -1, st.log)}

\* One run of the command, a process of its own: a new backend and a new
\* executor on the configuration
run_command(argset) ==
    /\ \E args \in argset :
         \E o \in cmd_run_tests_outcomes(config, args,
                     [results |-> [total |-> 0, passed |-> 0, failed |-> 0, details |-> <<>>],
                      log |-> <<>>]) :
            /\ results' = o.results
            /\ store_log' = o.log
            /\ call' = [op |-> "cmd_run_tests", args |-> args, kind |-> "exit",
                        value |-> o.exit, cause |-> o.cause]
    /\ UNCHANGED <<config, test_case, backend_rows>>
    /\ UNCHANGED avars

cmd_run_tests == run_command(RunArgs)

\* The first run of the command on a configuration, with --level all
cmd_run_all ==
    /\ call = NoCall
    /\ run_command({args \in RunArgs : /\ args.level = Some(<<"all">>)
                                       /\ args.materialize.none /\ args.test.none})

(***************************************************************************)
(* Specifications                                                          *)
(***************************************************************************)
\* The analyzer after __init__ on the declaration source g
AnalyzerInit(g) ==
    /\ graph = g
    /\ dependencies = <<>>
    /\ reverse_deps = <<>>
    /\ sorted_relations = <<>>
    /\ visited = {}
    /\ temp_marked = {}
    /\ ret = NoReturn

\* The executor after __init__ on the configuration cfg
ExecutorInit(cfg) ==
    /\ config = cfg
    /\ results = [total |-> 0, passed |-> 0, failed |-> 0, details |-> <<>>]
    /\ store_log = <<>>
    /\ call = NoCall

\* The runner's test case under study and the store's answer to its query
SuiteInit(tc, rows) ==
    /\ test_case = tc
    /\ backend_rows = rows

NoConfig == [test_levels |-> <<>>, materialization_requirements |-> <<>>]

\* Configurations of one level, "0", with or without materialization requirements
LevelConfigs ==
    {[test_levels |-> ("0" :> [tests |-> t]), materialization_requirements |-> m] :
        t \in TestLists, m \in {<<>>} \cup {("0" :> l) : l \in ScriptLists}}

\* Configurations of the last levels of a staged run, "2" and "3" or "2" alone,
\* each with at most one listed test
StagedTests == {t \in TestLists : Len(t) <= 1}

StagedConfigs ==
    {[test_levels |-> tl, materialization_requirements |-> m] :
        tl \in [{"2", "3"} -> {[tests |-> t] : t \in StagedTests}]
                 \cup [{"2"} -> {[tests |-> t] : t \in StagedTests}],
        m \in {<<>>} \cup {("2" :> l) : l \in ScriptLists \ {<<>>}}}

SortInit ==
    /\ (\E g \in EdgeSources : AnalyzerInit(g))
    /\ ExecutorInit(NoConfig)
    /\ SuiteInit(NoTest, <<>>)

SortNext == extract_dependencies \/ topological_sort

SpecSort == SortInit /\ [][SortNext]_vars

LevelsNext == extract_dependencies \/ calculate_dependency_levels

SpecLevels == SortInit /\ [][LevelsNext]_vars

ExtractInit ==
    /\ \E g \in Sources : AnalyzerInit(g)
    /\ ExecutorInit(NoConfig)
    /\ SuiteInit(NoTest, <<>>)

ExtractNext == extract_dependencies \/ remove_declaration

SpecExtract == ExtractInit /\ [][ExtractNext]_vars

ResortNext == extract_dependencies \/ topological_sort \/ remove_declaration

SpecResort == SortInit /\ [][ResortNext]_vars

\* The analyzer on a source of at most two annotations
ReextractInit ==
    /\ \E g \in {h \in EdgeSources : Cardinality(h) <= 2} : AnalyzerInit(g)
    /\ ExecutorInit(NoConfig)
    /\ SuiteInit(NoTest, <<>>)

SpecReextract == ReextractInit /\ [][ResortNext]_vars

RunLevelInit ==
    /\ AnalyzerInit({})
    /\ \E cfg \in LevelConfigs : ExecutorInit(cfg)
    /\ SuiteInit(NoTest, <<>>)

SpecRunLevel == RunLevelInit /\ [][run_level]_vars

RunTestsInit ==
    /\ AnalyzerInit({})
    /\ ExecutorInit(NoConfig)
    /\ SuiteInit(NoTest, <<>>)

SpecRunTests == RunTestsInit /\ [][runner_run_tests]_vars

CompareInit ==
    /\ AnalyzerInit({})
    /\ ExecutorInit(NoConfig)
    /\ \E expected \in ExpectedLists, rows \in RowLists :
          SuiteInit([expected |-> expected], rows)

SpecCompare == CompareInit /\ [][runner_run_test]_vars

\* One test case with a boolean or a one-row expectation, and the answer of the
\* store to its query
NormalizeInit ==
    /\ AnalyzerInit({})
    /\ ExecutorInit(NoConfig)
    /\ \E expected \in ExpectedAnswers, rows \in AnswerLists :
          SuiteInit([expected |-> expected], rows)

SpecNormalize == NormalizeInit /\ [][runner_run_test]_vars

\* Configurations of one level, "0", with at most one test and one script
CommandConfigs ==
    {[test_levels |-> ("0" :> [tests |-> t]), materialization_requirements |-> m] :
        t \in StagedTests,
        m \in {<<>>} \cup {("0" :> l) : l \in {k \in ScriptLists : Len(k) = 1}}}

CommandInit ==
    /\ AnalyzerInit({})
    /\ \E cfg \in CommandConfigs : ExecutorInit(cfg)
    /\ SuiteInit(NoTest, <<>>)

SpecCommand == CommandInit /\ [][cmd_run_tests]_vars

\* Configurations of the levels "0" and "1" for the run of all levels: scripts
\* required by the levels, and with or without a list under "all"
AllLevelsConfigs ==
    {[test_levels |-> ("0" :> [tests |-> <<T02>>]) @@ ("1" :> [tests |-> t]),
      materialization_requirements |-> ("0" :> l0) @@ ("1" :> l1) @@ m] :
        t \in {<<>>, <<T010>>}, l0 \in ScriptLists, l1 \in ScriptLists,
        m \in {<<>>} \cup {("all" :> l) : l \in ScriptLists}}

AllLevelsInit ==
    /\ AnalyzerInit({})
    /\ \E cfg \in AllLevelsConfigs : ExecutorInit(cfg)
    /\ SuiteInit(NoTest, <<>>)

SpecAllLevels == AllLevelsInit /\ [][cmd_run_all]_vars

StagedInit ==
    /\ AnalyzerInit({})
    /\ \E cfg \in StagedConfigs : ExecutorInit(cfg)
    /\ SuiteInit(NoTest, <<>>)

SpecStaged == StagedInit /\ [][run_all_levels]_vars


(***************************************************************************)
(* Properties of the analyzer                                              *)
(***************************************************************************)
\* The edges (A, B) of a dependency map: A depends on B
Edges(deps) == {<<a, b>> : a \in DOMAIN deps, b \in AllNodes(deps)} \cap
               UNION {{<<a, b>> : b \in deps[a]} : a \in DOMAIN deps}

RECURSIVE ReachableFrom(_, _)
\* The nodes that the nodes of `frontier` reach by one or more edges of E
ReachableFrom(E, frontier) ==
    LET next == frontier \cup {e[2] : e \in {x \in E : x[1] \in frontier}}
    IN IF next = frontier THEN frontier ELSE ReachableFrom(E, next)

\* The dependencies of a, and theirs, and so on
DependsOnStar(E, a) == ReachableFrom(E, {e[2] : e \in {x \in E : x[1] = a}})

Acyclic(deps) == \A a \in AllNodes(deps) : a \notin DependsOnStar(Edges(deps), a)

\* The position of x in a sequence that holds it
IndexOf(seq, x) == CHOOSE i \in DOMAIN seq : seq[i] = x

SortCalled == ret.op = "topological_sort"

\* C1: on an acyclic dependency relation topological_sort returns a sequence
\* that holds every node (dependent or dependency) exactly once, and in which
\* the dependency of every edge stands before its dependent.
C1_SortIsCompleteAndOrdered ==
    (SortCalled /\ Acyclic(dependencies)) =>
        /\ ret.kind = "return"
        /\ Len(ret.value) = Cardinality(AllNodes(dependencies))
        /\ Range(ret.value) = AllNodes(dependencies)
        /\ \A e \in Edges(dependencies) :
              IndexOf(ret.value, e[2]) < IndexOf(ret.value, e[1])

\* A sort of an acyclic relation with a chain of two edges and a third edge
C1_Witness ==
    /\ SortCalled /\ Acyclic(dependencies) /\ ret.kind = "return"
    /\ Cardinality(Edges(dependencies)) = 3
    /\ \E a, b, c \in AllNodes(dependencies) :
          /\ <<a, b>> \in Edges(dependencies) /\ <<b, c>> \in Edges(dependencies)
          /\ IndexOf(ret.value, c) < IndexOf(ret.value, b)
          /\ IndexOf(ret.value, b) < IndexOf(ret.value, a)

\* C2: on a dependency relation with a cycle (a two-node cycle and a node that
\* depends on itself included) topological_sort raises the cycle error, so its
\* caller gets no sequence, partial or complete.
C2_CycleRaises ==
    (SortCalled /\ ~Acyclic(dependencies)) =>
        /\ ret.kind = "raise"
        /\ ret.error = "ValueError"
        /\ "value" \notin DOMAIN ret

\* A sort that raised on a two-node cycle after it had already appended a node
C2_Witness ==
    /\ SortCalled /\ ret.kind = "raise"
    /\ \E a, b \in AllNodes(dependencies) :
          a # b /\ <<a, b>> \in Edges(dependencies) /\ <<b, a>> \in Edges(dependencies)
    /\ sorted_relations # <<>>

\* A sort that raised on a node that depends on itself
C2_WitnessSelf ==
    /\ SortCalled /\ ret.kind = "raise"
    /\ Cardinality(Edges(dependencies)) = 1
    /\ \E a \in AllNodes(dependencies) : <<a, a>> \in Edges(dependencies)

LevelsCalled == ret.op = "_calculate_dependency_levels"

\* The level of an identifier, looked up through its short name
LevelOf(id) == ret.levels[get_short_name(id)]

\* C3: on an acyclic dependency relation the level map gives level 0 to exactly
\* the identifiers with an empty dependency set.
C3_LevelZeroIffNoDependencies ==
    (LevelsCalled /\ Acyclic(dependencies)) =>
        \A id \in AllNodes(dependencies) :
            (DepsOf(dependencies, id) = {}) <=> (LevelOf(id) = 0)

\* C4: on an acyclic dependency relation over full identifiers, for every edge
\* (A depends on B) the level of B is strictly smaller than the level of A,
\* the levels looked up through the short names.
C4_EdgesAscendInLevel ==
    (LevelsCalled /\ Acyclic(dependencies)) =>
        \A e \in Edges(dependencies) : LevelOf(e[2]) < LevelOf(e[1])

\* The sequences a newly built analyzer holding the relation deps can return
FreshOrders(deps) ==
    {SortRun(deps, {}, order).sorted_relations : order \in Perms(AllNodes(deps))}

\* C15: no traversal state survives an aborted sort: a topological_sort on an
\* acyclic relation succeeds and returns a complete order that a fresh analyzer
\* could return, also when an earlier sort of the analyzer failed on a cycle.
C15_NoStateSurvivesAbort ==
    (SortCalled /\ Acyclic(dependencies)) =>
        /\ ret.kind = "return"
        /\ ret.value \in FreshOrders(dependencies)
        /\ Range(ret.value) = AllNodes(dependencies)

\* C16: the order topological_sort returns is reproducible: it is the same for
\* every order in which the set of nodes is iterated to choose the roots.
C16_OrderReproducible ==
    (SortCalled /\ ret.kind = "return") =>
        \A order \in Perms(AllNodes(dependencies)) :
            SortRun(dependencies, {}, order).sorted_relations = ret.value

\* C17: on a dependency relation with a cycle _calculate_dependency_levels
\* reports a cycle error and returns no level map.
C17_CycleGivesNoLevels ==
    (LevelsCalled /\ ~Acyclic(dependencies)) =>
        /\ ret.kind = "raise"
        /\ "levels" \notin DOMAIN ret
ExtractCalled == ret.op = "extract_dependencies"

\* The identifiers that are components of the chain declarations of r in g
ChainComponents(g, r) ==
    {c \in Ids : \E d \in g : /\ d.kind = "chain" /\ d.head = "BNode" /\ d.prop = r
                               /\ \E i \in DOMAIN d.comps : d.comps[i] = c}

\* The targets of the annotation declarations of r in g
AnnotationTargets(g, r) ==
    {c \in Ids : \E d \in g : d.kind = "annot" /\ d.prop = r /\ d.comps[1] = c}

C19_ExtractClearsAndRepeats ==
    [][extract_dependencies =>
          /\ \A e \in Edges(dependencies') :
                e[2] \in ChainComponents(graph, e[1]) \cup AnnotationTargets(graph, e[1])
          /\ \A e \in Edges(reverse_deps') :
                e[1] \in ChainComponents(graph, e[2]) \cup AnnotationTargets(graph, e[2])
          /\ ExtractCalled => (dependencies' = dependencies /\ reverse_deps' = reverse_deps)
      ]_vars

\* An extraction after a sort and the removal of a declaration: a node that the
\* sort visited is in the maps no more
C19_Witness ==
    /\ ExtractCalled
    /\ dependencies # <<>>
    /\ \E n \in visited : n \notin AllNodes(dependencies)

(***************************************************************************)
(* Properties of the executor                                              *)
(***************************************************************************)
\* A script submitted to the store as an update
IsUpdate(e) == e.op = "apply" /\ e.outcome # "missing"

IsQuery(e) == e.op = "query"

\* A script whose application failed: no such file, or the store raised
IsFailedApply(e) == e.op = "apply" /\ e.outcome \in {"missing", "raise"}

RunLevelCalled == call.op = "run_level"

\* The script list of the run_level call made
CalledList == MaterializeList(config, call.level, call.materialize)

\* C5: run_level submits the scripts of the level as updates one at a time in
\* the order of the script list, and all of them before the first test query.
C5_ScriptsInOrderBeforeTests ==
    RunLevelCalled =>
        LET updates == SelectSeq(store_log, IsUpdate)
        IN /\ Len(updates) <= Len(CalledList)
           /\ \A i \in DOMAIN updates : updates[i].arg = CalledList[i]
           /\ \A i, j \in DOMAIN store_log :
                 (i < j /\ IsQuery(store_log[i])) => store_log[j].op # "apply"
           /\ (\E i \in DOMAIN store_log : IsQuery(store_log[i])) =>
                 Len(updates) = Len(CalledList)

\* Two different scripts submitted in turn, then a test query
C5_Witness ==
    /\ RunLevelCalled
    /\ Len(store_log) >= 3
    /\ IsUpdate(store_log[1]) /\ IsUpdate(store_log[2]) /\ IsQuery(store_log[3])
    /\ store_log[1].arg # store_log[2].arg

\* C6: when applying a script fails in run_level (no such file, or the store
\* raises), no later script of the level is applied, no test query of the level
\* is run, and the dict returned carries the error.
C6_FailedScriptStopsLevel ==
    RunLevelCalled =>
        \A i \in DOMAIN store_log :
            IsFailedApply(store_log[i]) =>
                /\ i = Len(store_log)
                /\ \A j \in DOMAIN store_log : ~IsQuery(store_log[j])
                /\ call.kind = "return"
                /\ call.value.ref = "new"
                /\ call.value.materialization_error =
                      (IF store_log[i].outcome = "missing" THEN "FileNotFoundError"
                       ELSE "Exception")

\* The first of two scripts fails, on a level that has tests
C6_Witness ==
    /\ RunLevelCalled
    /\ Len(CalledList) = 2
    /\ Len(store_log) = 1 /\ IsFailedApply(store_log[1])
    /\ config.test_levels[str(call.level)].tests # <<>>
    /\ call.value.ref = "new"

\* The test ids configured for the level of the run_level call made
CalledTests == config.test_levels[str(call.level)].tests

\* C12: a script whose update the store reports as adding 0 triples is not an
\* error: apply_materialization returns normally, so that run_level goes on to
\* the next script of the list, and after the last script to the tests of the
\* level (which run, unless a listed test id is not in the suite).
C12_ZeroTriplesIsNoError ==
    RunLevelCalled =>
        \A i \in DOMAIN store_log :
            (store_log[i].op = "apply" /\ store_log[i].outcome = "zero") =>
                IF i < Len(CalledList)
                THEN /\ Len(store_log) > i
                     /\ store_log[i + 1].op = "apply"
                     /\ store_log[i + 1].arg = CalledList[i + 1]
                ELSE \/ /\ call.kind = "raise"
                        /\ \E k \in DOMAIN CalledTests : CalledTests[k] \notin Suite
                     \/ /\ call.kind = "return"
                        /\ call.value = RunnerResults
                        /\ Len(store_log) > i
                        /\ \A j \in (i + 1)..Len(store_log) : IsQuery(store_log[j])
                        /\ CalledTests # <<>> =>
                              SubSeq(store_log, i + 1, Len(store_log)) =
                                 [k \in DOMAIN CalledTests |->
                                     QueryEvent(CalledTests[k], call.level,
                                                store_log[i + k].outcome)]

\* Two scripts that both added 0 triples, then the two tests of the level
C12_Witness ==
    /\ RunLevelCalled
    /\ Len(store_log) = 4
    /\ store_log[1].op = "apply" /\ store_log[1].outcome = "zero"
    /\ store_log[2].op = "apply" /\ store_log[2].outcome = "zero"
    /\ IsQuery(store_log[3]) /\ IsQuery(store_log[4])
    /\ call.kind = "return"

StagedCalled == call.op = "run_all_levels"

\* C7: in run_all_levels, once the script application of a level has failed, no
\* script and no test query of a later level is submitted.
C7_FailedScriptHaltsRun ==
    StagedCalled =>
        \A i, j \in DOMAIN store_log :
            (IsFailedApply(store_log[i]) /\ i < j) =>
                store_log[j].level <= store_log[i].level

\* Level l had a test that ended FAIL or ERROR
TestFailedAt(l) ==
    \E i \in DOMAIN store_log :
        IsQuery(store_log[i]) /\ store_log[i].level = l /\ store_log[i].outcome # "PASS"

\* No script of level l failed to apply
ScriptsAppliedAt(l) ==
    \A i \in DOMAIN store_log : store_log[i].level = l => ~IsFailedApply(store_log[i])

\* run_all_levels called run_level for level l
Attempted(l) ==
    \/ call.kind = "return" /\ l \in DOMAIN call.value
    \/ \E i \in DOMAIN store_log : store_log[i].level = l
    \/ call.kind = "raise" /\ \A i \in DOMAIN store_log : store_log[i].level < l

C9_TotalCountsAllLevels ==
    (StagedCalled /\ call.kind = "return") =>
        /\ results.total = Len(SelectSeq(store_log, IsQuery))
        /\ results.total = results.passed + results.failed

\* C10: when run_level ends with a configuration error (level not configured,
\* or a configured test id that is not in the suite), it has submitted no
\* update to the store.
C10_ConfigErrorBeforeUpdates ==
    (RunLevelCalled /\ call.kind = "raise") =>
        \A i \in DOMAIN store_log : ~IsUpdate(store_log[i])


(***************************************************************************)
(* Properties of the runner                                                *)
(***************************************************************************)
RunTestsCalled == call.op = "run_tests"

\* The queries that the run_tests call made ran, oldest first
CallQueries == SubSeq(store_log, call.logged + 1, Len(store_log))

\* C11: when the query of a test raises during run_tests, the test id is
\* recorded with status ERROR and counted as failed, and the tests after it are
\* still executed: run_tests executes every test of its list (or of the suite),
\* whatever the verdicts.
C11_ErrorRecordedRunContinues ==
    (RunTestsCalled /\ call.kind = "return") =>
        /\ IF ~call.test_ids.none /\ call.test_ids.list # <<>>
           THEN /\ Len(CallQueries) = Len(call.test_ids.list)
                /\ \A i \in DOMAIN CallQueries : CallQueries[i].arg = call.test_ids.list[i]
           ELSE /\ Len(CallQueries) = Cardinality(Suite)
                /\ {CallQueries[i].arg : i \in DOMAIN CallQueries} = Suite
        /\ \A i \in DOMAIN CallQueries :
              (/\ CallQueries[i].outcome = "ERROR"
               /\ \A j \in DOMAIN CallQueries : j > i => CallQueries[j].arg # CallQueries[i].arg)
                 => /\ CallQueries[i].arg \in DOMAIN results.details
                    /\ results.details[CallQueries[i].arg] = "ERROR"
        /\ results.failed = call.failed_before
              + Cardinality({i \in DOMAIN CallQueries : CallQueries[i].outcome # "PASS"})

\* The query of the first of two listed tests raised, the second test passed
C11_Witness ==
    /\ RunTestsCalled /\ call.kind = "return"
    /\ Len(CallQueries) = 2
    /\ CallQueries[1].outcome = "ERROR" /\ CallQueries[2].outcome = "PASS"
    /\ CallQueries[1].arg # CallQueries[2].arg
    /\ results.failed = call.failed_before + 1

\* C14: run_tests called without a list of ids executes each test of the suite
\* exactly once, in ascending order of the ids compared component by component
\* as integers: "0.2" before "0.10".
C14_NumericIdOrder ==
    (RunTestsCalled /\ call.test_ids.none) =>
        /\ call.kind = "return"
        /\ Len(CallQueries) = Cardinality(Suite)
        /\ {CallQueries[i].arg : i \in DOMAIN CallQueries} = Suite
        /\ \A i, j \in DOMAIN CallQueries :
              i < j => TupleLessFrom(IdKey(CallQueries[i].arg), IdKey(CallQueries[j].arg), 1)
        /\ \A i, j \in DOMAIN CallQueries :
              (CallQueries[i].arg = T02 /\ CallQueries[j].arg = T010) => i < j

\* run_tests() ran "0.2" and then "0.10"
C14_Witness ==
    /\ RunTestsCalled /\ call.test_ids.none
    /\ Len(CallQueries) = 2
    /\ CallQueries[1].arg = T02 /\ CallQueries[2].arg = T010


RunTestCalled == call.op = "run_test"

\* The verdict of the run_test call made
CallVerdict == results.details[T02]

\* C13: the verdict of a test is order-insensitive: the verdict against the
\* expected rows is the same for every permutation of the actual rows, and
\* actual rows whose normalized rows are a permutation of the expected rows pass.
C13_VerdictIgnoresOrder ==
    RunTestCalled =>
        /\ \A q \in Orderings(call.rows) : Compare(q, test_case.expected) = CallVerdict
        /\ test_case.expected \in Orderings(normalize_results(call.rows)) =>
              (CallVerdict = "PASS" /\ call.value)

\* Two different rows returned in the order opposite to the expected one
C13_Witness ==
    /\ RunTestCalled
    /\ Len(call.rows) = 2
    /\ normalize_results(call.rows)[1] # normalize_results(call.rows)[2]
    /\ test_case.expected = <<normalize_results(call.rows)[2], normalize_results(call.rows)[1]>>
    /\ call.rows[1] # normalize_results(call.rows)[1]
    /\ CallVerdict = "PASS"


(***************************************************************************)
(* Properties of the run command                                           *)
(***************************************************************************)
\* The category of a run of the command: a script could not be applied, the
\* configuration or the command line was wrong, a test ended FAIL or ERROR, or
\* none of these
Category(c, log) ==
    IF \E i \in DOMAIN log : IsFailedApply(log[i]) THEN "script-application error"
    ELSE IF c.cause \in {"ValueError", "no data files"} THEN "configuration error"
    ELSE IF \E i \in DOMAIN log : IsQuery(log[i]) /\ log[i].outcome # "PASS"
         THEN "failed tests"
    ELSE "success"

\* C20: the outcomes of the run command are distinguishable per category: two
\* runs of different categories (script-application error, configuration
\* error, failed tests, full success) end with different exit statuses.
C20_ExitStatusPerCategory ==
    [][(/\ call.op = "cmd_run_tests"
        /\ call'.op = "cmd_run_tests"
        /\ Category(call, store_log) # Category(call', store_log'))
          => call.value # call'.value
      ]_vars


\* A run of the command with --level all that got past the check of the data files
AllCalled ==
    /\ call.op = "cmd_run_tests"
    /\ call.args.level = Some(<<"all">>)
    /\ call.cause # "no data files"

\* The scripts that the levels 0..9 of the configuration require, resolved, in
\* the order of the levels and of their lists, repetitions included
LevelScripts ==
    LET raw == CollectScripts(config.materialization_requirements, 0)
    IN [i \in DOMAIN raw |-> resolve_script_path(raw[i])]

\* The members of a list in the order of their first occurrences
FirstSeen(list) ==
    LET keep == {p \in DOMAIN list : \A q \in 1..(p - 1) : list[q] # list[p]}
    IN [i \in 1..Cardinality(keep) |->
          list[CHOOSE p \in keep : Cardinality({q \in keep : q < p}) = i - 1]]

\* The scripts handed to apply_materialization, oldest first
AppliedScripts ==
    LET applies == SelectSeq(store_log, LAMBDA e : e.op = "apply")
    IN [i \in DOMAIN applies |-> applies[i].arg]

\* The scripts are the first-seen union of the levels' scripts, each applied
\* once and in that order, all of them unless one fails, and before any query
UnionAppliedFirst ==
    /\ Len(AppliedScripts) <= Len(FirstSeen(LevelScripts))
    /\ AppliedScripts = SubSeq(FirstSeen(LevelScripts), 1, Len(AppliedScripts))
    /\ (\A i \in DOMAIN store_log : ~IsFailedApply(store_log[i]))
          => Len(AppliedScripts) = Len(FirstSeen(LevelScripts))
    /\ \A i, j \in DOMAIN store_log :
          (i < j /\ IsQuery(store_log[i])) => store_log[j].op # "apply"

AppliedAt(l) ==
    LET applies == SelectSeq(store_log, LAMBDA e : e.op = "apply" /\ e.level = l)
    IN [i \in DOMAIN applies |-> applies[i].arg]

\* A test query was run on behalf of level l
QueriedAt(l) == \E i \in DOMAIN store_log : IsQuery(store_log[i]) /\ store_log[i].level = l

\* The configured default list of level l, resolved
DefaultList(l) ==
    LET raw == Get(config.materialization_requirements, str(l), <<>>)
    IN [i \in DOMAIN raw |-> resolve_script_path(raw[i])]

\* The scripts level l is to apply under the overrides m of the caller
DueList(m, l) == IF l \in DOMAIN m THEN m[l] ELSE DefaultList(l)

\* The scripts applied for level l are those of `due`, in order, and all of
\* them once the tests of the level run
AppliesDue(l, due) ==
    /\ Len(AppliedAt(l)) <= Len(due)
    /\ AppliedAt(l) = SubSeq(due, 1, Len(AppliedAt(l)))
    /\ QueriedAt(l) => Len(AppliedAt(l)) = Len(due)

\* C22: for each level executed the scripts applied are the caller's override
\* list for the level when the caller supplied one, and otherwise the
\* configured default list of the level, in run_level and in run_all_levels.
C22_OverrideElseDefault ==
    /\ RunLevelCalled =>
          AppliesDue(call.level,
                     IF call.materialize.none THEN DefaultList(call.level)
                     ELSE call.materialize.list)
    /\ StagedCalled =>
          \A l \in 0..(LevelStop - 1) : AppliesDue(l, DueList(call.materialize_per_level, l))


(***************************************************************************)
(* Properties of _calculate_dependency_levels, continued                    *)
(***************************************************************************)
\* The graph over short node names has no cycle
ShortAcyclic(deps) ==
    \A n \in ShortNodes(deps) : n \notin ReachableFrom(
        {<<r[2], r[1]>> : r \in Relationships(deps)}, RevGraph(deps, n))

RECURSIVE Depth(_, _)
\* The length of the longest dependency path from the node name n down to a
\* node name without dependencies, on a graph of short names without a cycle
Depth(deps, n) ==
    IF RevGraph(deps, n) = {} THEN 0
    ELSE 1 + Max({Depth(deps, d) : d \in RevGraph(deps, n)})

\* C23: when the graph over short node names is acyclic, a node name with
\* dependencies has the level 1 + the maximum level of its dependencies, the
\* level of every node name is the length of its longest dependency path, and
\* max_level is the maximum of all levels, 0 when there is no node.
C23_LevelIsLongestPath ==
    (LevelsCalled /\ ShortAcyclic(dependencies)) =>
        /\ \A n \in ret.nodes :
              /\ RevGraph(dependencies, n) # {} =>
                    ret.levels[n] = 1 + Max({ret.levels[d] : d \in RevGraph(dependencies, n)})
              /\ ret.levels[n] = Depth(dependencies, n)
        /\ ret.nodes = {} => ret.max_level = 0
        /\ ret.nodes # {} =>
              /\ \A n \in ret.nodes : ret.levels[n] <= ret.max_level
              /\ \E n \in ret.nodes : ret.levels[n] = ret.max_level

\* A node name with two dependencies that have different levels was levelled
C23_Witness ==
    /\ LevelsCalled
    /\ ShortAcyclic(dependencies)
    /\ \E n \in ret.nodes : \E d, e \in RevGraph(dependencies, n) :
          /\ ret.levels[d] < ret.levels[e]
          /\ ret.levels[n] = 2

\* C24: the fixed-point loop ends after at most (number of nodes + 1) passes
\* over the node set, on cyclic relations too, and every pass except the last
\* gives a level to at least one more node.
C24_LoopEndsWithinNodesPlusOne ==
    LevelsCalled =>
        /\ ret.passes <= Cardinality(ret.nodes) + 1
        /\ Len(ret.assigned) = ret.passes
        /\ \A k \in 1..(ret.passes - 1) : ret.assigned[k] >= 1
        /\ ret.assigned[ret.passes] = 0

\* The loop made progress on a relation with a cycle, then stopped
C24_Witness ==
    /\ LevelsCalled
    /\ ~ShortAcyclic(dependencies)
    /\ ret.passes >= 2

\* C24, the bound is met: as many passes as there are node names
C24_WitnessChain ==
    /\ LevelsCalled
    /\ ret.passes = 3
    /\ Cardinality(ret.nodes) = 3

\* C29: on an acyclic dependency relation with at least one node every
\* integer from 0 to max_level is the level of some node, and max_level is at
\* most the number of nodes minus one.
C29_LevelsAreDense ==
    (LevelsCalled /\ Acyclic(dependencies) /\ ret.nodes # {}) =>
        /\ \A l \in 0..ret.max_level : \E n \in ret.nodes : ret.levels[n] = l
        /\ ret.max_level <= Cardinality(ret.nodes) - 1

\* Three levels on three node names
C29_Witness ==
    /\ LevelsCalled
    /\ Acyclic(dependencies)
    /\ ret.max_level = 2
    /\ Cardinality(ret.nodes) = 3


(***************************************************************************)
(* Properties of normalize_results                                          *)
(***************************************************************************)
\* The rows are the answer of a yes/no query: one row, its result a boolean
IsBooleanAnswer(rows) ==
    /\ Len(rows) = 1
    /\ DOMAIN rows[1] = {"result"}
    /\ IsBool(rows[1].result)

\* The local name of a text that contains the base namespace: what follows it
LocalName(value) ==
    LET at == CHOOSE i \in 1..(Len(value) - 1) :
                 /\ value[i] = Base /\ value[i + 1] = "#"
                 /\ \A j \in 1..(i - 1) : ~(value[j] = Base /\ value[j + 1] = "#")
    IN SubSeq(value, at + 2, Len(value))

\* The normalized form of a bound value
Compact(value) ==
    IF HasBase(str_of(value)) THEN <<":">> \o LocalName(str_of(value))
    ELSE str_of(value)

\* C26: normalize_results passes a single-row boolean result through unchanged,
\* so that a result true matches the expected true and not the expected false,
\* and in every other actual result it rewrites each value that contains the
\* base namespace to ':' and its local name and leaves every other value as
\* its plain string form.
C26_BooleanKeptOthersCompacted ==
    RunTestCalled =>
        /\ IsBooleanAnswer(call.rows) =>
              /\ call.actual = call.rows
              /\ IsBooleanAnswer(test_case.expected) =>
                    (CallVerdict = "PASS" <=> test_case.expected = call.rows)
        /\ ~IsBooleanAnswer(call.rows) =>
              /\ Len(call.actual) = Len(call.rows)
              /\ \A i \in DOMAIN call.rows :
                    /\ DOMAIN call.actual[i] = DOMAIN call.rows[i]
                    /\ \A k \in DOMAIN call.rows[i] :
                          call.actual[i][k] = Compact(call.rows[i][k])


(***************************************************************************)
(* Properties of run_test: the comparison                                   *)
(***************************************************************************)
\* The sequences a and b hold the same rows, each as many times
SameMultiset(a, b) ==
    \A r \in Range(a) \cup Range(b) :
        Cardinality({i \in DOMAIN a : a[i] = r}) = Cardinality({i \in DOMAIN b : b[i] = r})

\* C30: run_test reports PASS exactly when the normalized actual rows and the
\* expected rows are equal as multisets and FAIL otherwise, a row repeated in
\* the actual result counting as a difference, and the class of the failure
\* that is printed changes nothing in the verdict.
C30_PassIffSameMultiset ==
    RunTestCalled =>
        /\ CallVerdict = "PASS" <=> SameMultiset(call.actual, test_case.expected)
        /\ CallVerdict \in {"PASS", "FAIL"}
        /\ call.value <=> CallVerdict = "PASS"
        /\ CallVerdict = "FAIL" =>
              /\ call.analysis \in {"no results", "partial results", "too many results",
                                    "differ in content"}
              /\ results.failed = 1
              /\ results.passed = 0

\* The actual result holds twice the row that the expected rows list once
C30_Witness ==
    /\ RunTestCalled
    /\ Len(call.actual) = 2
    /\ call.actual[1] = call.actual[2]
    /\ test_case.expected = <<call.actual[1]>>
    /\ CallVerdict = "FAIL"
    /\ call.analysis = "too many results"


(***************************************************************************)
(* Properties of run_all_levels: the levels it goes through                 *)
(***************************************************************************)
\* The levels that the level configuration defines
DefinedLevels == {l \in 0..(LevelCount - 1) : str(l) \in DOMAIN config.test_levels}

\* C25: run_all_levels started at start_level attempts the levels from
\* start_level up to the highest level of the configuration in ascending
\* order, each at most once and none that the configuration does not define,
\* and the store operations of a level come after those of the levels before.
C25_OnlyDefinedLevelsAscending ==
    (StagedCalled /\ call.start_level \in DefinedLevels
                  /\ \A l \in call.start_level..Max(DefinedLevels) : l \in DefinedLevels) =>
        /\ \A i \in DOMAIN call.attempted :
              /\ call.attempted[i] = call.start_level + i - 1
              /\ call.attempted[i] \in DefinedLevels
        /\ \A i, j \in DOMAIN store_log :
              i < j => store_log[i].level <= store_log[j].level


(***************************************************************************)
(* Properties of run_level: the tests of the level                          *)
(***************************************************************************)
\* C27: run_level for a level executes only the test cases whose ids are in
\* the configured test list of the level, each as many times as it is listed;
\* a level whose configured list is empty executes none and reports total 0.
C27_OnlyListedTestsRun ==
    (RunLevelCalled /\ call.kind = "return" /\ call.value = RunnerResults) =>
        LET queries == SelectSeq(store_log, IsQuery)
        IN /\ [i \in DOMAIN queries |-> queries[i].arg] = CalledTests
           /\ results.total = Len(CalledTests)

(***************************************************************************)
(* Properties of run_all_levels: the map it returns                         *)
(***************************************************************************)
\* What the caller reads in a value that run_level returned: the dict of a
\* script failure is a dict of its own, any other is the runner's results
Deref(value) == IF value.ref = "new" THEN value ELSE results

\* The test queries made on behalf of level l
QueriesAt(l) == SelectSeq(store_log, LAMBDA e : IsQuery(e) /\ e.level = l)

\* C28: in the map returned by run_all_levels the result recorded for a level
\* describes that level only, its own total, passed, failed and details,
\* whatever later levels were executed (stated for the levels that list tests).
C28_LevelResultsIndependent ==
    (StagedCalled /\ call.kind = "return") =>
        \A l \in {k \in DOMAIN call.value : config.test_levels[str(k)].tests # <<>>} :
            LET r == Deref(call.value[l])
                q == QueriesAt(l)
            IN /\ r.total = Len(q)
               /\ r.passed = Len(SelectSeq(q, LAMBDA e : e.outcome = "PASS"))
               /\ r.failed = Len(SelectSeq(q, LAMBDA e : e.outcome # "PASS"))
               /\ DOMAIN r.details = {q[i].arg : i \in DOMAIN q}

====
